---- MODULE Spec2Model ----
(***************************************************************************)
(* Model of the two administrative scripts of the repository:              *)
(*   src/sec_dev/sdk_client.py           RAGFlowSDKClient (client wrapper)  *)
(*   src/sec_dev/user_admin_operation.py UserAdmin (admin tool)             *)
(*                                                                          *)
(* The two scripts are independent programs; inside the admin tool the     *)
(* HTTP registration flow and the database operations share no state.      *)
(* The variable surface, fixed by Init, says which command surface a       *)
(* behaviour exercises; "race" is the database surface with a second      *)
(* admin process reading beside the first, "crypto" is encrypt_password    *)
(* computed on bytes.                                                      *)
(***************************************************************************)
EXTENDS Integers, Sequences, FiniteSets, TLC

\* ------------------------------------------------------------------ bounds
MaxRegCalls == 2
MaxMemberships == 2
MaxLLM == 1
MaxConstruct == 2
MaxItems == 3
MaxPage == 2
MaxPageSize == 2
MaxPwLen == 3
KeyBytes == 19

\* Python's None.  Every nullable value of the model is a record with a kind
\* field, so that None compares with any of them.
None == [kind |-> "None"]

\* Python booleans as values an operation returns
True == [kind |-> "bool", value |-> TRUE]
False == [kind |-> "bool", value |-> FALSE]

\* ------------------------------------------------------------- value sets
\* account / unit identifiers present in the database
UserIds == {1, 2}
\* nickname/email/password triples handed to the registration flow
RegInputs ==
    {[nickname |-> "alice", email |-> "alice@example.com", password |-> "pwA"],
     [nickname |-> "bob", email |-> "bob@example.com", password |-> "pwB"],
     [nickname |-> "carol", email |-> "carol@example.com", password |-> "pwLong"]}
\* exceptions a remote or database call can raise
Excs == {"ConnectionError", "ApiError"}

VARIABLES
    surface,        \* "register" | "db" | "race" | "sdk" | "crypto"
    \* --- UserAdmin: HTTP registration flow
    public_key,     \* self.public_key: "valid" | "invalid" PEM content
    sessionAuth,    \* self.session.headers['Authorization'] (None when absent)
    rpc,            \* position inside register_user_and_get_api_token
    regArgs,        \* arguments of the call in progress
    regCalls,       \* number of flow invocations so far
    reqLog,         \* HTTP requests sent by the call in progress, each with
                    \* the Authorization header it carried and its outcome
    register_result,\* result of _register_user in this call
    regResult,      \* return value of the flow
    serverAccounts, \* accounts the server created (remote state)
    regCaller,      \* who called the flow: "direct" (menu, command line) or
                    \* "test" (create_test_user); "none" before the first call
    user_suffix,    \* create_test_user's suffix, given or generated
    files,          \* the ragflow_user_<suffix>.json files on disk
    console,        \* the API token create_test_user printed in this call
    saved,          \* the suffix of the file this call wrote (None when none)
    \* --- UserAdmin: database operations
    db_initialized, \* self.db_initialized
    users,          \* User rows (ids)
    tenants,        \* Tenant rows (ids)
    userTenants,    \* UserTenant rows
    tenantLLM,      \* number of TenantLLM rows per tenant id
    apc,            \* position inside the running admin operation
    aop,            \* "none" | "list" | "info" | "delete"
    atarget,        \* user_id argument
    aconfirm,       \* confirm argument of delete_user
    details,        \* what get_user_details has read so far
    user_details,   \* return value of get_user_details
    subdel,         \* outcome of each of the four sub-deletes
    aresult,        \* return value of the admin operation
    raisedAt,       \* where the exception being handled was raised
    escaped,        \* an exception left the admin operation
    typed,          \* what the operator typed at the confirmation prompt
    dbctx,          \* a `with DB.connection_context()` block is entered
    queries,        \* the ORM queries the operation executed itself, each
                    \* with whether a connection context was held
    \* --- a second admin process reading the same database
    reader_pc,      \* position inside its get_user_details
    reader_target,  \* its user_id argument
    reader_details, \* what it has read so far
    reader_result,  \* what its get_user_details returned
    \* --- encrypt_password, byte by byte, and the server's decryption
    cr_pc,          \* "idle" | "encrypted" | "decrypted"
    plaintext,      \* the plaintext password, a sequence of code points
    encrypted,      \* what encrypt_password returned
    recovered,      \* what the server's decryption produced
    \* --- RAGFlowSDKClient
    client,         \* the constructed wrapper instance (None when none)
    ragHandles,     \* number of RAGFlow(...) handles created
    ctorCalls,      \* number of constructor invocations
    ctorOutcome,    \* outcome of the last constructor invocation
    spc,            \* "idle", or "done" when an operation has just ended
    sdkOp,          \* last wrapper operation invoked
    sdkArgs,        \* arguments it was invoked with
    sdkSent,        \* remote calls it issued, with the arguments forwarded
    sdkLog,         \* log records it wrote
    sdkOutcome      \* how it ended: returned a value or raised

testVars == <<user_suffix, files, console, saved>>
regVars == <<public_key, sessionAuth, rpc, regArgs, regCalls, reqLog,
             register_result, regResult, serverAccounts, regCaller, testVars>>
dbVars == <<db_initialized, users, tenants, userTenants, tenantLLM, apc, aop,
            atarget, aconfirm, details, user_details, subdel, aresult, raisedAt,
            escaped, typed, dbctx, queries>>
sdkVars == <<client, ragHandles, ctorCalls, ctorOutcome, spc, sdkOp, sdkArgs,
             sdkSent, sdkLog, sdkOutcome>>
readerVars == <<reader_pc, reader_target, reader_details, reader_result>>
cryptoVars == <<cr_pc, plaintext, encrypted, recovered>>
vars == <<surface, regVars, dbVars, sdkVars, readerVars, cryptoVars>>

\* ========================================================================
\* UserAdmin: registration + token issuance flow
\* ========================================================================

\* encrypt_password: None when the key cannot be imported, else the
\* ciphertext of the password under the key.
\* "pwLong" stands for a password whose base64 text is longer than the key
\* can encrypt under PKCS#1 v1.5: cipher.encrypt raises ValueError
TooLong(password) == password = "pwLong"

encrypt_password(password) ==
    IF public_key = "valid" /\ ~TooLong(password)
    THEN [kind |-> "cipher", of |-> password]
    ELSE None

\* Outcomes of the GET /v1/user/login/channels probe: an exception, or a
\* response with a status code.
ProbeOutcomes ==
    {[kind |-> "exception"]} \cup {[kind |-> "response", status_code |-> c] : c \in {200, 500}}

\* mutant: any response counts as a live server, whatever its status
check_server_status_AnyStatus(outcome) == outcome.kind # "exception"

\* check_server_status: True only for a response with status 200
check_server_status(outcome) ==
    IF outcome.kind = "exception" THEN FALSE ELSE outcome.status_code = 200

\* Responses of POST /v1/user/register.  hdr: the response carries an
\* Authorization header.
RegisterResponses ==
    {[kind |-> "exception", hdr |-> FALSE], [kind |-> "error", hdr |-> FALSE]}
    \cup {[kind |-> "ok", hdr |-> h] : h \in BOOLEAN}

\* Responses of POST /v1/system/new_token.  token: the 'token' field of the
\* response data (a token, the empty string, or missing).
TokenResponses ==
    {[kind |-> "exception"], [kind |-> "error"]}
    \cup {[kind |-> "ok", token |-> t] : t \in {"present", "empty", "missing"}}

\* mutant: the answer's code is not looked at
RegisterSucceeded_AnyCode(resp) == resp.kind # "exception"

\* _register_user goes on only when the request did not raise and the
\* answer's code is 0
RegisterSucceeded(resp) == resp.kind = "ok"

RegInit ==
    /\ public_key \in IF surface = "register" THEN {"valid", "invalid"}
                      ELSE {"valid"}
    /\ sessionAuth = None
    /\ rpc = "idle"
    /\ regArgs = None
    /\ regCalls = 0
    /\ reqLog = <<>>
    /\ register_result = None
    /\ regResult = None
    /\ serverAccounts = {}
    /\ regCaller = "none"
    /\ user_suffix = None
    /\ files = {}
    /\ console = None
    /\ saved = None

\* entry of register_user_and_get_api_token(nickname, email, password)
RegisterCall(args) ==
    /\ surface = "register"
    /\ UNCHANGED <<surface, dbVars, sdkVars, readerVars, cryptoVars>>
    /\ rpc = "idle"
    /\ regCalls < MaxRegCalls
    /\ rpc' = "check"
    /\ regArgs' = args
    /\ regCalls' = regCalls + 1
    /\ reqLog' = <<>>
    /\ register_result' = None
    /\ regResult' = None
    /\ regCaller' = "direct"
    /\ user_suffix' = None
    /\ console' = None
    /\ saved' = None
    /\ UNCHANGED <<public_key, sessionAuth, serverAccounts, files>>

\* check_server_status and the guard on its result
CheckServerStatus(outcome) ==
    /\ surface = "register"
    /\ UNCHANGED <<surface, dbVars, sdkVars, readerVars, cryptoVars>>
    /\ rpc = "check"
    /\ UNCHANGED <<regCaller, testVars>>
    /\ reqLog' = Append(reqLog, [kind |-> "probe", auth |-> sessionAuth,
                                  resp |-> outcome])
    /\ IF check_server_status(outcome)
       THEN /\ rpc' = "register"
            /\ regResult' = regResult
       ELSE /\ rpc' = "done"
            /\ regResult' = None
    /\ UNCHANGED <<public_key, sessionAuth, regArgs, regCalls, register_result,
                   serverAccounts>>

\* _register_user and the guard on its result
\* mutant: the caller does not check what encrypt_password returned
EncryptionFailed_Unchecked(encrypted_password) == FALSE

\* `if not encrypted_password: return None`
EncryptionFailed(encrypted_password) == encrypted_password = None

RegisterUser(resp) ==
    /\ surface = "register"
    /\ UNCHANGED <<surface, dbVars, sdkVars, readerVars, cryptoVars>>
    /\ rpc = "register"
    /\ UNCHANGED <<regCaller, testVars>>
    /\ IF EncryptionFailed(encrypt_password(regArgs.password))
       THEN \* no request is sent
            /\ rpc' = "done"
            /\ regResult' = None
            /\ register_result' = None
            /\ UNCHANGED <<reqLog, sessionAuth, serverAccounts>>
       ELSE /\ reqLog' = Append(reqLog, [kind |-> "register", auth |-> sessionAuth,
                                          resp |-> resp])
            /\ IF RegisterSucceeded(resp)
               THEN /\ serverAccounts' = serverAccounts \cup {regCalls}
                    /\ register_result' = [kind |-> "result", code |-> 0,
                                           id |-> regCalls,
                                           nickname |-> regArgs.nickname,
                                           email |-> regArgs.email]
                    /\ sessionAuth' = IF resp.hdr
                                      THEN [kind |-> "auth", id |-> regCalls]
                                      ELSE sessionAuth
                    /\ rpc' = "token"
                    /\ regResult' = regResult
               ELSE /\ register_result' = None
                    /\ rpc' = "done"
                    /\ regResult' = None
                    /\ UNCHANGED <<sessionAuth, serverAccounts>>
    /\ UNCHANGED <<public_key, regArgs, regCalls>>

\* data.token of a code-0 answer of the token endpoint to a request carrying
\* authorization header a
IssuedToken(a, t) ==
    CASE t = "present" -> [kind |-> "token", owner |-> a.id]
      [] t = "empty"   -> [kind |-> "empty"]
      [] OTHER         -> None

\* _get_api_token and the assembly of the flow's result
\* mutant: only a None token counts as a failed issuance
TokenMissing_NoneOnly(api_token) == api_token = None

\* `if not api_token`: None (the request raised, was refused, or its answer
\* held no token) or the empty string
TokenMissing(api_token) == api_token = None \/ api_token.kind = "empty"

GetApiToken(resp) ==
    /\ surface = "register"
    /\ UNCHANGED <<surface, dbVars, sdkVars, readerVars, cryptoVars>>
    /\ rpc = "token"
    /\ UNCHANGED <<regCaller, testVars>>
    \* the endpoint only answers 0 to an authenticated session
    /\ resp.kind = "ok" => sessionAuth # None
    /\ reqLog' = Append(reqLog, [kind |-> "token", auth |-> sessionAuth,
                                  resp |-> resp])
    /\ LET api_token == IF resp.kind = "ok"
                        THEN IssuedToken(sessionAuth, resp.token)
                        ELSE None
       IN regResult' =
            IF TokenMissing(api_token)
            THEN [kind |-> "partial", user |-> register_result.id,
                  api_token |-> None,
                  message |-> "registered, token failed"]
            ELSE [kind |-> "complete", user |-> register_result.id,
                  api_token |-> api_token,
                  tenant_id |-> register_result.id, success |-> TRUE]
    /\ rpc' = "done"
    /\ UNCHANGED <<public_key, sessionAuth, regArgs, regCalls,
                   register_result, serverAccounts>>

\* the flow has returned to its caller
RegisterReturn ==
    /\ surface = "register"
    /\ UNCHANGED <<surface, dbVars, sdkVars, readerVars, cryptoVars>>
    /\ rpc = "done"
    /\ regCaller = "direct"
    /\ UNCHANGED <<regCaller, testVars>>
    /\ rpc' = "idle"
    /\ UNCHANGED <<public_key, sessionAuth, regArgs, regCalls, reqLog,
                   register_result, regResult, serverAccounts>>

\* --- create_test_user -----------------------------------------------------
\* the user_suffix arguments: absent, empty, or given
Suffixes == {None, [kind |-> "str", value |-> ""], [kind |-> "str", value |-> "s1"]}

\* `if not user_suffix: user_suffix = str(uuid.uuid4())[:8]`: a fresh suffix,
\* the k-th generated one, replaces an absent or empty one
SuffixOrGenerated(sfx, k) ==
    IF sfx = None \/ sfx = [kind |-> "str", value |-> ""]
    THEN [kind |-> "uuid", n |-> k]
    ELSE sfx

\* result.get('success'): absent from None and from a partial result
GetSuccess(result) == IF result.kind = "complete" THEN result.success ELSE FALSE

\* mutant: any result that is not None is printed and saved
ShouldSave_AnyResult(result) == result # None

\* `if result and result.get('success')`
ShouldSave(result) == result # None /\ GetSuccess(result)

\* entry of create_test_user(user_suffix), up to its call of the flow
CreateTestUserCall(sfx) ==
    /\ surface = "register"
    /\ UNCHANGED <<surface, dbVars, sdkVars, readerVars, cryptoVars>>
    /\ rpc = "idle"
    /\ regCalls < MaxRegCalls
    /\ rpc' = "check"
    /\ regCaller' = "test"
    /\ user_suffix' = SuffixOrGenerated(sfx, regCalls + 1)
    /\ regArgs' = [nickname |-> <<"TestUser_", user_suffix'>>,
                   email |-> <<"user_", user_suffix', "@example.com">>,
                   password |-> "Test123456"]
    /\ regCalls' = regCalls + 1
    /\ reqLog' = <<>>
    /\ register_result' = None
    /\ regResult' = None
    /\ console' = None
    /\ saved' = None
    /\ UNCHANGED <<public_key, sessionAuth, serverAccounts, files>>

\* create_test_user after the flow returned: a successful result is printed
\* and written to ragflow_user_<suffix>.json (an existing file is replaced)
CreateTestUserSave ==
    /\ surface = "register"
    /\ UNCHANGED <<surface, dbVars, sdkVars, readerVars, cryptoVars>>
    /\ rpc = "done"
    /\ regCaller = "test"
    /\ rpc' = "idle"
    /\ IF ShouldSave(regResult)
       THEN /\ console' = regResult.api_token
            /\ files' = {f \in files : f.suffix # user_suffix}
                           \cup {[suffix |-> user_suffix, content |-> regResult]}
            /\ saved' = user_suffix
       ELSE UNCHANGED <<console, files, saved>>
    /\ UNCHANGED <<public_key, sessionAuth, regArgs, regCalls, reqLog,
                   register_result, regResult, serverAccounts, regCaller,
                   user_suffix>>

RegNext ==
    \/ \E a \in RegInputs : RegisterCall(a)
    \/ \E sfx \in Suffixes : CreateTestUserCall(sfx)
    \/ CreateTestUserSave
    \/ \E o \in ProbeOutcomes : CheckServerStatus(o)
    \/ \E r \in RegisterResponses : RegisterUser(r)
    \/ \E r \in TokenResponses : GetApiToken(r)
    \/ RegisterReturn

\* ========================================================================
\* UserAdmin: database operations
\* ========================================================================

UserRow(i) == [kind |-> "row", id |-> i]
UTRows == {[kind |-> "row", user_id |-> u, tenant_id |-> t] :
             u \in UserIds, t \in UserIds}
\* the surfaces on which the database operations run
DbSurfaces == {"db", "race"}
SubDeletes == {"user", "tenant", "user_tenant", "tenant_llm"}

NoDetails == [user |-> None, tenant |-> None, user_tenant |-> None,
              tenant_llm_count |-> 0]
NoSubDel == [s \in SubDeletes |-> "pending"]

\* the rows of a set of ids as a sequence, in ascending id order
RECURSIVE RowsOf(_)
RowsOf(S) ==
    IF S = {} THEN <<>>
    ELSE LET m == CHOOSE x \in S : \A y \in S : x <= y
         IN <<UserRow(m)>> \o RowsOf(S \ {m})

\* input(...).strip(): leading and trailing blanks removed
RECURSIVE Strip(_)
Strip(s) ==
    IF s = <<>> THEN s
    ELSE IF Head(s) = " " THEN Strip(Tail(s))
    ELSE IF s[Len(s)] = " " THEN Strip(SubSeq(s, 1, Len(s) - 1))
    ELSE s

\* what the operator types at the confirmation prompt
ConfirmInputs ==
    {<<"DELETE">>, <<" ", "DELETE", " ">>, <<"delete">>, <<"DELETE", "!">>, <<>>}

\* the database contents the tool can find: any rows over UserIds
DbContents ==
    /\ db_initialized \in BOOLEAN
    /\ users \in SUBSET UserIds
    /\ tenants \in SUBSET UserIds
    /\ userTenants \in {m \in SUBSET UTRows : Cardinality(m) <= MaxMemberships}
    /\ tenantLLM \in [UserIds -> {0, MaxLLM}]

\* the database of the two-process behaviours: every account complete,
\* with its unit, its membership and its model configuration
RaceContents ==
    /\ db_initialized = TRUE
    /\ users = {1}
    /\ tenants = users
    /\ userTenants = {[kind |-> "row", user_id |-> u, tenant_id |-> u] : u \in users}
    /\ tenantLLM = [i \in UserIds |-> IF i \in users THEN MaxLLM ELSE 0]

DbEmpty ==
    /\ db_initialized = TRUE
    /\ users = {}
    /\ tenants = {}
    /\ userTenants = {}
    /\ tenantLLM = [i \in UserIds |-> 0]

DbInit ==
    /\ CASE surface = "db"   -> DbContents
         [] surface = "race" -> RaceContents
         [] OTHER            -> DbEmpty
    /\ apc = "idle"
    /\ aop = "none"
    /\ atarget = 0
    /\ aconfirm = FALSE
    /\ details = NoDetails
    /\ user_details = None
    /\ subdel = NoSubDel
    /\ aresult = None
    /\ raisedAt = "none"
    /\ escaped = FALSE
    /\ typed = None
    /\ dbctx = FALSE
    /\ queries = {}

dbRows == <<db_initialized, users, tenants, userTenants, tenantLLM>>

\* a query of the admin tool's own, executed with the context held or not
Executed(q, held) == [q |-> q, ctx |-> held]

\* --- list_users ---------------------------------------------------------
\* the value list_users returns: [] when the database is not initialised,
\* when the query raises and when there are no rows, else one entry per row
List(rows) == [kind |-> "list", rows |-> rows]

\* mutant: a failing query yields None instead of []
list_users_NoneOnError(fault) ==
    IF ~db_initialized THEN List(<<>>)
    ELSE IF fault THEN None
    ELSE IF users = {} THEN List(<<>>)
    ELSE List(RowsOf(users))

list_users(fault) ==
    IF ~db_initialized THEN List(<<>>)
    ELSE IF fault THEN List(<<>>)
    ELSE IF users = {} THEN List(<<>>)
    ELSE List(RowsOf(users))

ListUsers(fault) ==
    /\ surface = "db"
    /\ UNCHANGED <<surface, regVars, sdkVars, readerVars, cryptoVars>>
    /\ apc = "idle"
    /\ aop' = "list"
    /\ apc' = "done"
    /\ aresult' = list_users(fault)
    /\ raisedAt' = IF db_initialized /\ fault THEN "list" ELSE "none"
    /\ escaped' = FALSE
    \* User.select() inside the with block only builds the query; it is
    \* executed by `if not users`, after the block has been left
    /\ dbctx' = FALSE
    /\ queries' = IF db_initialized /\ ~fault
                  THEN {Executed("User.select", dbctx')}
                  ELSE {}
    /\ UNCHANGED <<dbRows, atarget, aconfirm, details, user_details, subdel,
                   typed>>

\* --- get_user_details ---------------------------------------------------
\* mutant: no except clause, the exception of a query leaves the method
GudExcept_Propagates == [ret |-> None, escaped |-> TRUE]

\* what get_user_details does with an exception of one of its queries
GudExcept == [ret |-> None, escaped |-> FALSE]

\* mutant: a row is returned although none was found
GudNotFound_Row == [kind |-> "row", id |-> 0]

\* what get_user_details returns when the account row is not found
GudNotFound == None

\* get_user_details returns ud, having read (and printed) d: to the caller
\* of the admin tool, or into delete_user, which keeps ud only and gives up
\* on None, else asks for confirmation or starts the teardown
GudFinish(ud, d) ==
    /\ user_details' = ud
    /\ dbctx' = FALSE
    /\ details' = IF aop = "info" THEN d ELSE NoDetails
    /\ IF aop = "info"
       THEN /\ apc' = "done"
            /\ aresult' = ud
       ELSE IF ud = None
       THEN /\ apc' = "done"
            /\ aresult' = False
       ELSE /\ apc' = IF aconfirm THEN "confirm" ELSE "rb_user"
            /\ aresult' = aresult

GudRaise ==
    /\ raisedAt' = "get_user_details"
    /\ escaped' = (GudExcept.escaped /\ aop = "info")
    /\ GudFinish(GudExcept.ret, details)

GetUserDetailsCall(user_id) ==
    /\ surface = "db"
    /\ UNCHANGED <<surface, regVars, sdkVars, readerVars, cryptoVars>>
    /\ apc = "idle"
    /\ aop' = "info"
    /\ atarget' = user_id
    /\ dbctx' = db_initialized
    /\ queries' = {}
    /\ typed' = None
    /\ details' = NoDetails
    /\ raisedAt' = "none"
    /\ escaped' = FALSE
    /\ IF ~db_initialized
       THEN /\ apc' = "done"
            /\ aresult' = None
       ELSE /\ apc' = "gud_user"
            /\ aresult' = aresult
    /\ UNCHANGED <<dbRows, aconfirm, user_details, subdel>>

\* User.select().where(User.id == user_id).first()
GudSelectUser(fault) ==
    /\ surface \in DbSurfaces
    /\ UNCHANGED <<surface, regVars, sdkVars, readerVars, cryptoVars>>
    /\ apc = "gud_user"
    /\ queries' = queries \cup {Executed("User.select.first", dbctx)}
    /\ UNCHANGED typed
    /\ IF fault THEN GudRaise
       ELSE IF atarget \notin users
       THEN /\ GudFinish(GudNotFound, details)
            /\ UNCHANGED <<raisedAt, escaped>>
       ELSE /\ details' = [details EXCEPT !.user = UserRow(atarget)]
            /\ dbctx' = dbctx
            /\ apc' = "gud_tenant"
            /\ UNCHANGED <<user_details, aresult, raisedAt, escaped>>
    /\ UNCHANGED <<dbRows, aop, atarget, aconfirm, subdel>>

\* Tenant.select().where(Tenant.id == user_id).first()
GudSelectTenant(fault) ==
    /\ surface \in DbSurfaces
    /\ UNCHANGED <<surface, regVars, sdkVars, readerVars, cryptoVars>>
    /\ apc = "gud_tenant"
    /\ queries' = queries \cup {Executed("Tenant.select.first", dbctx)}
    /\ UNCHANGED typed
    /\ IF fault THEN GudRaise
       ELSE /\ details' = [details EXCEPT !.tenant =
                              IF atarget \in tenants THEN UserRow(atarget) ELSE None]
            /\ apc' = "gud_user_tenant"
            /\ dbctx' = dbctx
            /\ UNCHANGED <<user_details, aresult, raisedAt, escaped>>
    /\ UNCHANGED <<dbRows, aop, atarget, aconfirm, subdel>>

\* UserTenant.select().where(UserTenant.user_id == user_id).first()
GudSelectUserTenant(fault) ==
    /\ surface \in DbSurfaces
    /\ UNCHANGED <<surface, regVars, sdkVars, readerVars, cryptoVars>>
    /\ apc = "gud_user_tenant"
    /\ queries' = queries \cup {Executed("UserTenant.select.first", dbctx)}
    /\ UNCHANGED typed
    /\ IF fault THEN GudRaise
       ELSE /\ LET found == {r \in userTenants : r.user_id = atarget}
               IN IF found = {}
                  THEN details' = [details EXCEPT !.user_tenant = None]
                  ELSE \E r \in found :
                         details' = [details EXCEPT !.user_tenant = r]
            /\ apc' = "gud_llm"
            /\ dbctx' = dbctx
            /\ UNCHANGED <<user_details, aresult, raisedAt, escaped>>
    /\ UNCHANGED <<dbRows, aop, atarget, aconfirm, subdel>>

\* TenantLLM.select().where(TenantLLM.tenant_id == user_id).count(), then
\* the report is printed and the account row returned
GudCountLLM(fault) ==
    /\ surface \in DbSurfaces
    /\ UNCHANGED <<surface, regVars, sdkVars, readerVars, cryptoVars>>
    /\ apc = "gud_llm"
    /\ queries' = queries \cup {Executed("TenantLLM.select.count", dbctx)}
    /\ UNCHANGED typed
    /\ IF fault THEN GudRaise
       ELSE /\ GudFinish(details.user,
                          [details EXCEPT !.tenant_llm_count = tenantLLM[atarget]])
            /\ UNCHANGED <<raisedAt, escaped>>
    /\ UNCHANGED <<dbRows, aop, atarget, aconfirm, subdel>>

\* --- delete_user ---------------------------------------------------------
DeleteUserCall(user_id, confirm) ==
    /\ surface \in DbSurfaces
    /\ UNCHANGED <<surface, regVars, sdkVars, readerVars, cryptoVars>>
    /\ apc = "idle"
    /\ aop' = "delete"
    /\ atarget' = user_id
    /\ dbctx' = db_initialized
    /\ queries' = {}
    /\ typed' = None
    /\ aconfirm' = confirm
    /\ details' = NoDetails
    /\ subdel' = NoSubDel
    /\ raisedAt' = "none"
    /\ escaped' = FALSE
    /\ IF ~db_initialized
       THEN /\ apc' = "done"
            /\ aresult' = False
       ELSE /\ apc' = "gud_user"
            /\ aresult' = aresult
    /\ UNCHANGED <<dbRows, user_details>>

\* mutant: the comparison ignores case
Confirmed_AnyCase(confirm_input) ==
    confirm_input \in {<<"DELETE">>, <<"delete">>}

\* `if confirm_input != 'DELETE'` cancels
Confirmed(confirm_input) == confirm_input = <<"DELETE">>

\* the confirmation prompt: only the stripped input 'DELETE' lets the
\* teardown start; eof: input() raises EOFError
ConfirmPrompt(raw, eof) ==
    /\ surface \in DbSurfaces
    /\ UNCHANGED <<surface, regVars, sdkVars, readerVars, cryptoVars>>
    /\ apc = "confirm"
    /\ UNCHANGED <<dbctx, queries>>
    /\ typed' = IF eof THEN [kind |-> "eof"] ELSE [kind |-> "typed", text |-> raw]
    /\ IF eof
       THEN /\ apc' = "except"
            /\ raisedAt' = "input"
            /\ aresult' = aresult
       ELSE /\ raisedAt' = raisedAt
            /\ IF ~Confirmed(Strip(raw))
               THEN /\ apc' = "done"
                    /\ aresult' = False
               ELSE /\ apc' = "rb_user"
                    /\ aresult' = aresult
    /\ UNCHANGED <<dbRows, aop, atarget, aconfirm, details, user_details,
                   subdel, escaped>>

\* --- _rollback_user_registration -----------------------------------------
\* mutant: one try/except around the whole teardown, a failing sub-delete
\* leaves the rest undone and its exception reaches delete_user
RollbackNext_SharedTry(step, failed) ==
    IF failed THEN "except"
    ELSE CASE step = "user"        -> "rb_tenant"
           [] step = "tenant"      -> "rb_user_tenant"
           [] step = "user_tenant" -> "rb_tenant_llm"
           [] step = "tenant_llm"  -> "verify"

\* where the teardown goes after sub-delete step, which raised iff failed:
\* every step has a try/except of its own, so always on to the next step
RollbackNext(step, failed) ==
    CASE step = "user"        -> "rb_tenant"
      [] step = "tenant"      -> "rb_user_tenant"
      [] step = "user_tenant" -> "rb_tenant_llm"
      [] step = "tenant_llm"  -> "verify"

\* bookkeeping common to the four steps
RollbackStep(step, failed) ==
    /\ subdel' = [subdel EXCEPT ![step] = IF failed THEN "failed" ELSE "ok"]
    /\ apc' = RollbackNext(step, failed)
    /\ raisedAt' = IF apc' = "except" THEN "rollback" ELSE raisedAt
    \* the first three steps go through service methods; the fourth is a
    \* query of the tool's own, and no with block surrounds the teardown
    /\ queries' = IF step = "tenant_llm"
                  THEN queries \cup {Executed("TenantLLM.delete", dbctx)}
                  ELSE queries
    /\ UNCHANGED <<typed, dbctx>>
    /\ UNCHANGED <<db_initialized, aop, atarget, aconfirm, details,
                   user_details, aresult, escaped>>

\* UserService.delete_by_id(user_id)
RollbackDeleteUser(failed) ==
    /\ surface \in DbSurfaces
    /\ UNCHANGED <<surface, regVars, sdkVars, readerVars, cryptoVars>>
    /\ apc = "rb_user"
    /\ users' = IF failed THEN users ELSE users \ {atarget}
    /\ RollbackStep("user", failed)
    /\ UNCHANGED <<tenants, userTenants, tenantLLM>>

\* mutant: the unit row is not deleted
RollbackDeleteTenant_Skipped(failed) ==
    /\ surface \in DbSurfaces
    /\ UNCHANGED <<surface, regVars, sdkVars, readerVars, cryptoVars>>
    /\ apc = "rb_tenant"
    /\ tenants' = tenants
    /\ RollbackStep("tenant", failed)
    /\ UNCHANGED <<users, userTenants, tenantLLM>>

\* TenantService.delete_by_id(user_id)
RollbackDeleteTenant(failed) ==
    /\ surface \in DbSurfaces
    /\ UNCHANGED <<surface, regVars, sdkVars, readerVars, cryptoVars>>
    /\ apc = "rb_tenant"
    /\ tenants' = IF failed THEN tenants ELSE tenants \ {atarget}
    /\ RollbackStep("tenant", failed)
    /\ UNCHANGED <<users, userTenants, tenantLLM>>

\* the rows UserTenantService.query(tenant_id=user_id) returns
UserTenantQuery(user_id) == {r \in userTenants : r.tenant_id = user_id}

\* u = UserTenantService.query(tenant_id=user_id);
\* if u: UserTenantService.delete_by_id(u[0].id)
RollbackDeleteUserTenant(failed) ==
    /\ surface \in DbSurfaces
    /\ UNCHANGED <<surface, regVars, sdkVars, readerVars, cryptoVars>>
    /\ apc = "rb_user_tenant"
    /\ LET u == UserTenantQuery(atarget)
       IN IF failed \/ u = {}
          THEN userTenants' = userTenants
          ELSE \E first \in u : userTenants' = userTenants \ {first}
    /\ RollbackStep("user_tenant", failed)
    /\ UNCHANGED <<users, tenants, tenantLLM>>

\* TenantLLM.delete().where(TenantLLM.tenant_id == user_id).execute()
RollbackDeleteTenantLLM(failed) ==
    /\ surface \in DbSurfaces
    /\ UNCHANGED <<surface, regVars, sdkVars, readerVars, cryptoVars>>
    /\ apc = "rb_tenant_llm"
    /\ tenantLLM' = IF failed THEN tenantLLM
                    ELSE [tenantLLM EXCEPT ![atarget] = 0]
    /\ RollbackStep("tenant_llm", failed)
    /\ UNCHANGED <<users, tenants, userTenants>>

\* --- delete_user, after the teardown --------------------------------------
\* the two existence checks and the verdict on them
VerifyDeletion(fault) ==
    /\ surface \in DbSurfaces
    /\ UNCHANGED <<surface, regVars, sdkVars, readerVars, cryptoVars>>
    /\ apc = "verify"
    \* with DB.connection_context(): entered, the two queries, left
    /\ LET held == TRUE
       IN queries' = queries \cup {Executed("User.select.exists", held),
                                    Executed("Tenant.select.exists", held)}
    /\ dbctx' = FALSE
    /\ UNCHANGED typed
    /\ IF fault
       THEN /\ apc' = "except"
            /\ raisedAt' = "verify"
            /\ aresult' = aresult
       ELSE /\ LET user_exists == atarget \in users
                   tenant_exists == atarget \in tenants
               IN aresult' = IF ~user_exists /\ ~tenant_exists THEN True ELSE False
            /\ apc' = "done"
            /\ raisedAt' = raisedAt
    /\ UNCHANGED <<dbRows, aop, atarget, aconfirm, details, user_details,
                   subdel, escaped>>

\* except Exception of delete_user: report and return False
DeleteUserExcept ==
    /\ surface \in DbSurfaces
    /\ UNCHANGED <<surface, regVars, sdkVars, readerVars, cryptoVars>>
    /\ apc = "except"
    /\ UNCHANGED <<typed, dbctx, queries>>
    /\ apc' = "done"
    /\ aresult' = False
    /\ UNCHANGED <<dbRows, aop, atarget, aconfirm, details, user_details,
                   subdel, raisedAt, escaped>>

\* the operation has returned to the menu or the command line
AdminReturn ==
    /\ surface \in DbSurfaces
    /\ UNCHANGED <<surface, regVars, sdkVars, readerVars, cryptoVars>>
    /\ apc = "done"
    /\ apc' = "idle"
    /\ aop' = "none"
    /\ atarget' = 0
    /\ aconfirm' = FALSE
    /\ details' = NoDetails
    /\ user_details' = None
    /\ subdel' = NoSubDel
    /\ aresult' = None
    /\ raisedAt' = "none"
    /\ escaped' = FALSE
    /\ typed' = None
    /\ dbctx' = FALSE
    /\ queries' = {}
    /\ UNCHANGED dbRows

DbNext ==
    \/ \E f \in BOOLEAN : ListUsers(f)
    \/ \E i \in UserIds : GetUserDetailsCall(i)
    \/ \E f \in BOOLEAN : GudSelectUser(f)
    \/ \E f \in BOOLEAN : GudSelectTenant(f)
    \/ \E f \in BOOLEAN : GudSelectUserTenant(f)
    \/ \E f \in BOOLEAN : GudCountLLM(f)
    \/ \E i \in UserIds, c \in BOOLEAN : DeleteUserCall(i, c)
    \/ \E inp \in ConfirmInputs, eof \in BOOLEAN : ConfirmPrompt(inp, eof)
    \/ \E f \in BOOLEAN : RollbackDeleteUser(f)
    \/ \E f \in BOOLEAN : RollbackDeleteTenant(f)
    \/ \E f \in BOOLEAN : RollbackDeleteUserTenant(f)
    \/ \E f \in BOOLEAN : RollbackDeleteTenantLLM(f)
    \/ \E f \in BOOLEAN : VerifyDeletion(f)
    \/ DeleteUserExcept
    \/ AdminReturn

\* --- get_user_details in a second process --------------------------------
\* A second run of the admin tool (its own UserAdmin, database initialised)
\* calls get_user_details while the first runs DbNext on the same database.
ReaderInit ==
    /\ reader_pc = "idle"
    /\ reader_target = 0
    /\ reader_details = NoDetails
    /\ reader_result = None

\* mutant: the teardown holds the rows and a reader's query waits for it
ReaderBlocked_DuringTeardown ==
    apc \in {"rb_tenant", "rb_user_tenant", "rb_tenant_llm"}

\* DB.connection_context() takes a connection and nothing else: no
\* transaction, no lock against another process
ReaderBlocked == FALSE

\* what a query of the reader leads to; fault: it raises, and the except
\* clause returns None
ReaderAfter(fault, d, next) ==
    IF fault
    THEN /\ reader_pc' = "done"
         /\ reader_result' = GudExcept.ret
         /\ reader_details' = reader_details
    ELSE /\ reader_pc' = next
         /\ reader_details' = d
         /\ reader_result' = IF next = "done" THEN d.user ELSE reader_result

ReaderCall(user_id) ==
    /\ surface = "race"
    /\ UNCHANGED <<surface, regVars, dbVars, sdkVars, cryptoVars>>
    /\ reader_pc = "idle"
    /\ reader_pc' = "gud_user"
    /\ reader_target' = user_id
    /\ reader_details' = NoDetails
    /\ reader_result' = None

\* User.select().where(User.id == user_id).first(); `if not user: return None`
ReaderSelectUser(fault) ==
    /\ surface = "race"
    /\ UNCHANGED <<surface, regVars, dbVars, sdkVars, cryptoVars, reader_target>>
    /\ reader_pc = "gud_user"
    /\ ~ReaderBlocked
    /\ IF reader_target \in users
       THEN ReaderAfter(fault,
                        [reader_details EXCEPT !.user = UserRow(reader_target)],
                        "gud_tenant")
       ELSE ReaderAfter(fault, reader_details, "done")

\* Tenant.select().where(Tenant.id == user_id).first()
ReaderSelectTenant(fault) ==
    /\ surface = "race"
    /\ UNCHANGED <<surface, regVars, dbVars, sdkVars, cryptoVars, reader_target>>
    /\ reader_pc = "gud_tenant"
    /\ ~ReaderBlocked
    /\ ReaderAfter(fault,
                   [reader_details EXCEPT !.tenant =
                       IF reader_target \in tenants THEN UserRow(reader_target)
                       ELSE None],
                   "gud_user_tenant")

\* UserTenant.select().where(UserTenant.user_id == user_id).first()
ReaderSelectUserTenant(fault) ==
    /\ surface = "race"
    /\ UNCHANGED <<surface, regVars, dbVars, sdkVars, cryptoVars, reader_target>>
    /\ reader_pc = "gud_user_tenant"
    /\ ~ReaderBlocked
    /\ LET found == {r \in userTenants : r.user_id = reader_target}
       IN IF found = {}
          THEN ReaderAfter(fault,
                           [reader_details EXCEPT !.user_tenant = None],
                           "gud_llm")
          ELSE \E r \in found :
                  ReaderAfter(fault,
                              [reader_details EXCEPT !.user_tenant = r],
                              "gud_llm")

\* TenantLLM.select().where(TenantLLM.tenant_id == user_id).count(); the
\* report is printed and the account row returned
ReaderCountLLM(fault) ==
    /\ surface = "race"
    /\ UNCHANGED <<surface, regVars, dbVars, sdkVars, cryptoVars, reader_target>>
    /\ reader_pc = "gud_llm"
    /\ ~ReaderBlocked
    /\ ReaderAfter(fault,
                   [reader_details EXCEPT
                       !.tenant_llm_count = tenantLLM[reader_target]],
                   "done")

\* the reader's get_user_details has returned
ReaderReturn ==
    /\ surface = "race"
    /\ UNCHANGED <<surface, regVars, dbVars, sdkVars, cryptoVars>>
    /\ reader_pc = "done"
    /\ reader_pc' = "idle"
    /\ reader_target' = 0
    /\ reader_details' = NoDetails
    /\ reader_result' = None

ReaderNext ==
    \/ \E i \in UserIds : ReaderCall(i)
    \/ \E f \in BOOLEAN : ReaderSelectUser(f)
    \/ \E f \in BOOLEAN : ReaderSelectTenant(f)
    \/ \E f \in BOOLEAN : ReaderSelectUserTenant(f)
    \/ \E f \in BOOLEAN : ReaderCountLLM(f)
    \/ ReaderReturn

\* ========================================================================
\* RAGFlowSDKClient: the client wrapper
\* ========================================================================

Str(v) == [kind |-> "str", value |-> v]

\* api_token values handed to the constructor
ApiTokens == {None, Str(""), Str("ragflow-token")}
\* base_url values handed to the constructor
BaseUrls == {Str("http://localhost:9380"), Str("http://localhost:9380/")}

\* base_url.rstrip('/')
RStripSlash(url) ==
    IF url = Str("http://localhost:9380/") THEN Str("http://localhost:9380") ELSE url

\* mutant: `api_token is None`, the empty string passes
ApiTokenMissing_NoneOnly(api_token) == api_token = None

\* `not api_token`: None and the empty string are falsy
ApiTokenMissing(api_token) == api_token = None \/ api_token = Str("")

\* the remote call each public operation maps to
RemoteCall ==
    [create_dataset |-> "rag.create_dataset",
     list_datasets |-> "rag.list_datasets",
     delete_datasets |-> "rag.delete_datasets",
     get_dataset_by_name |-> "rag.get_dataset",
     upload_document_to_dataset |-> "dataset.upload_documents",
     list_documents |-> "dataset.list_documents",
     delete_documents |-> "dataset.delete_documents",
     parse_documents |-> "dataset.async_parse_documents",
     stop_parsing_documents |-> "dataset.async_cancel_parse_documents",
     add_chunk_to_document |-> "document.add_chunk",
     list_chunks |-> "document.list_chunks",
     delete_chunks |-> "document.delete_chunks",
     retrieve_chunks |-> "rag.retrieve",
     create_chat_assistant |-> "rag.create_chat",
     list_chat_assistants |-> "rag.list_chats",
     delete_chat_assistants |-> "rag.delete_chats",
     create_session |-> "chat.create_session",
     list_sessions |-> "chat.list_sessions",
     delete_sessions |-> "chat.delete_sessions",
     chat_with_assistant |-> "session.ask",
     list_agents |-> "rag.list_agents",
     create_agent |-> "rag.create_agent",
     update_agent |-> "rag.update_agent",
     delete_agent |-> "rag.delete_agent",
     create_agent_session |-> "agent.create_session",
     list_agent_sessions |-> "agent.list_sessions",
     delete_agent_sessions |-> "agent.delete_sessions",
     chat_with_agent |-> "session.ask"]

\* operations taking page and page_size
ListOps == {"list_datasets", "list_documents", "list_chunks", "retrieve_chunks",
            "list_chat_assistants", "list_sessions", "list_agents",
            "list_agent_sessions"}
\* operations returning the remote call's value
ValueOps == {"create_dataset", "get_dataset_by_name", "add_chunk_to_document",
             "create_chat_assistant", "create_session", "create_agent_session"}
\* operations returning nothing
VoidOps == {"delete_datasets", "delete_documents", "parse_documents",
            "stop_parsing_documents", "delete_chunks", "delete_chat_assistants",
            "delete_sessions", "create_agent", "update_agent", "delete_agent",
            "delete_agent_sessions"}
ChatOps == {"chat_with_assistant", "chat_with_agent"}
SdkOps == ListOps \cup ValueOps \cup VoidOps \cup ChatOps
             \cup {"upload_document_to_dataset"}

\* what the remote client does with a call: it raises, or answers; n is the
\* size of the collection a listing is cut from
RemoteOutcomes ==
    {[kind |-> "raise", exc |-> e] : e \in Excs}
    \cup {[kind |-> "ok", n |-> n] : n \in 0..MaxItems}

\* page `page` (from 1) of `page_size` items out of items 1..n
RemotePage(n, page, page_size) ==
    LET first == (page - 1) * page_size + 1
        last == IF page * page_size < n THEN page * page_size ELSE n
    IN IF last < first THEN List(<<>>)
       ELSE List([i \in 1..(last - first + 1) |-> first + i - 1])

Info == [level |-> "info"]
Error(e) == [level |-> "error", exc |-> e]
Returned(v) == [kind |-> "returned", value |-> v]
Raised(e) == [kind |-> "raised", exc |-> e]

\* mutant: the failure is logged and swallowed, the method returns None
OnRemoteError_Swallow(e) == [log |-> <<Error(e)>>, outcome |-> Returned(None)]

\* except Exception as e: self.logger.error(...); raise
OnRemoteError(e) == [log |-> <<Error(e)>>, outcome |-> Raised(e)]

\* mutant: a failed call is tried once more
RemoteCalls_Retry(op, args, ro) ==
    IF ro.kind = "raise"
    THEN <<[call |-> RemoteCall[op], args |-> args, outcome |-> ro],
           [call |-> RemoteCall[op], args |-> args, outcome |-> ro]>>
    ELSE <<[call |-> RemoteCall[op], args |-> args, outcome |-> ro]>>

\* the remote calls one invocation issues: the operation's one call, once,
\* whatever its outcome ro
RemoteCalls(op, args, ro) ==
    <<[call |-> RemoteCall[op], args |-> args, outcome |-> ro]>>

\* the page and page_size a listing hands to the remote call
ForwardPaging(page, page_size) == [page |-> page, page_size |-> page_size]

SdkInit ==
    /\ client = None
    /\ ragHandles = 0
    /\ ctorCalls = 0
    /\ ctorOutcome = None
    /\ spc = "idle"
    /\ sdkOp = "none"
    /\ sdkArgs = None
    /\ sdkSent = <<>>
    /\ sdkLog = <<>>
    /\ sdkOutcome = None

sdkCtor == <<client, ragHandles, ctorCalls, ctorOutcome>>

\* RAGFlowSDKClient(base_url, api_token)
Construct(base_url, api_token) ==
    /\ surface = "sdk"
    /\ UNCHANGED <<surface, regVars, dbVars, readerVars, cryptoVars>>
    /\ spc = "idle"
    /\ ctorCalls < MaxConstruct
    /\ ctorCalls' = ctorCalls + 1
    /\ IF ApiTokenMissing(api_token)
       THEN /\ ctorOutcome' = [kind |-> "raised", exc |-> "ValueError",
                               api_token |-> api_token,
                               handles_before |-> ragHandles]
            /\ UNCHANGED <<client, ragHandles>>
       ELSE /\ client' = [kind |-> "client", base_url |-> RStripSlash(base_url),
                          api_token |-> api_token,
                          rag |-> [api_key |-> api_token, base_url |-> base_url]]
            /\ ragHandles' = ragHandles + 1
            /\ ctorOutcome' = [kind |-> "returned", exc |-> "none",
                               api_token |-> api_token,
                               handles_before |-> ragHandles]
    /\ UNCHANGED <<spc, sdkOp, sdkArgs, sdkSent, sdkLog, sdkOutcome>>

\* the eight listing operations: one remote call with page and page_size,
\* an info record with the length, the remote call's list returned
SdkList(op, page, page_size, ro) ==
    /\ surface = "sdk"
    /\ UNCHANGED <<surface, regVars, dbVars, readerVars, cryptoVars>>
    /\ client # None
    /\ spc = "idle"
    /\ spc' = "done"
    /\ sdkOp' = op
    /\ sdkArgs' = [page |-> page, page_size |-> page_size]
    /\ LET fwd == ForwardPaging(page, page_size)
       IN /\ sdkSent' = RemoteCalls(op, fwd, ro)
          /\ IF ro.kind = "raise"
             THEN /\ sdkLog' = OnRemoteError(ro.exc).log
                  /\ sdkOutcome' = OnRemoteError(ro.exc).outcome
             ELSE /\ sdkLog' = <<Info>>
                  /\ sdkOutcome' = Returned(RemotePage(ro.n, fwd.page, fwd.page_size))
    /\ UNCHANGED sdkCtor

\* the operations that make one remote call and return its value, or
\* nothing: create_*, get_dataset_by_name, add_chunk_to_document, delete_*,
\* parse_documents, stop_parsing_documents, update_agent
SdkCall(op, ro) ==
    /\ surface = "sdk"
    /\ UNCHANGED <<surface, regVars, dbVars, readerVars, cryptoVars>>
    /\ client # None
    /\ spc = "idle"
    /\ spc' = "done"
    /\ sdkOp' = op
    /\ sdkArgs' = [kind |-> "args"]
    /\ sdkSent' = RemoteCalls(op, [kind |-> "args"], ro)
    /\ IF ro.kind = "raise"
       THEN /\ sdkLog' = OnRemoteError(ro.exc).log
            /\ sdkOutcome' = OnRemoteError(ro.exc).outcome
       ELSE /\ sdkLog' = IF op = "get_dataset_by_name" THEN <<>> ELSE <<Info>>
            /\ sdkOutcome' = IF op \in ValueOps
                             THEN Returned([kind |-> "object"])
                             ELSE Returned(None)
    /\ UNCHANGED sdkCtor

\* chat_with_assistant, chat_with_agent: session.ask with the stream flag;
\* a streamed answer is returned as the lazy sequence the remote call gives
SdkChat(op, stream, ro) ==
    /\ surface = "sdk"
    /\ UNCHANGED <<surface, regVars, dbVars, readerVars, cryptoVars>>
    /\ client # None
    /\ spc = "idle"
    /\ spc' = "done"
    /\ sdkOp' = op
    /\ sdkArgs' = [stream |-> stream]
    /\ sdkSent' = RemoteCalls(op, [stream |-> stream], ro)
    /\ LET before == IF stream THEN <<Info>> ELSE <<>>
       IN IF ro.kind = "raise"
          THEN /\ sdkLog' = before \o OnRemoteError(ro.exc).log
               /\ sdkOutcome' = OnRemoteError(ro.exc).outcome
          ELSE /\ sdkLog' = <<Info>>
               /\ sdkOutcome' = Returned([kind |-> IF stream THEN "stream"
                                                   ELSE "response"])
    /\ UNCHANGED sdkCtor

\* upload_document_to_dataset: a missing file is rejected before anything
\* else; a file that cannot be read fails inside the try; else one remote call
SdkUpload(exists, readable, ro) ==
    /\ surface = "sdk"
    /\ UNCHANGED <<surface, regVars, dbVars, readerVars, cryptoVars>>
    /\ client # None
    /\ spc = "idle"
    /\ spc' = "done"
    /\ sdkOp' = "upload_document_to_dataset"
    /\ sdkArgs' = [exists |-> exists, readable |-> readable]
    /\ IF ~exists
       THEN /\ sdkSent' = <<>>
            /\ sdkLog' = <<>>
            /\ sdkOutcome' = Raised("FileNotFoundError")
       ELSE IF ~readable
       THEN /\ sdkSent' = <<>>
            /\ sdkLog' = OnRemoteError("OSError").log
            /\ sdkOutcome' = OnRemoteError("OSError").outcome
       ELSE /\ sdkSent' = RemoteCalls("upload_document_to_dataset",
                                        [kind |-> "args"], ro)
            /\ IF ro.kind = "raise"
               THEN /\ sdkLog' = OnRemoteError(ro.exc).log
                    /\ sdkOutcome' = OnRemoteError(ro.exc).outcome
               ELSE /\ sdkLog' = <<Info>>
                    /\ sdkOutcome' = Returned(None)
    /\ UNCHANGED sdkCtor

\* the operation has returned to (or raised into) its caller
SdkReturn ==
    /\ surface = "sdk"
    /\ UNCHANGED <<surface, regVars, dbVars, readerVars, cryptoVars>>
    /\ spc = "done"
    /\ spc' = "idle"
    /\ sdkOp' = "none"
    /\ sdkArgs' = None
    /\ sdkSent' = <<>>
    /\ sdkLog' = <<>>
    /\ sdkOutcome' = None
    /\ UNCHANGED sdkCtor

SdkNext ==
    \/ \E b \in BaseUrls, t \in ApiTokens : Construct(b, t)
    \/ \E op \in ListOps, p \in 1..MaxPage, ps \in 1..MaxPageSize,
          ro \in RemoteOutcomes : SdkList(op, p, ps, ro)
    \/ \E op \in ValueOps \cup VoidOps, ro \in RemoteOutcomes : SdkCall(op, ro)
    \/ \E op \in ChatOps, st \in BOOLEAN, ro \in RemoteOutcomes : SdkChat(op, st, ro)
    \/ \E ex \in BOOLEAN, rd \in BOOLEAN, ro \in RemoteOutcomes : SdkUpload(ex, rd, ro)
    \/ SdkReturn

\* ========================================================================
\* The program
\* ========================================================================
\* ========================================================================
\* encrypt_password on bytes, and the server's decryption of its result
\* ========================================================================
\* Text is a sequence of code points, bytes a sequence of 0..255; <<-1>> is
\* the failure of a decoding.  The key is a toy one and RSA is applied to
\* each byte of the padded block as a block of its own (every byte of a block
\* is below RsaN), the block being KeyBytes long.
RsaN == 253
RsaE == 3
RsaD == 147

\* code points of the passwords tried: A, e-acute, the euro sign, and a lone
\* surrogate (which a str can hold and UTF-8 cannot encode)
PwChars == {65, 233, 8364, 55296}
Surrogates == 55296..57343
\* the nonzero bytes the padding string is drawn from
PadBytes == {1, 200}
BadBytes == <<-1>>

RECURSIVE SeqsUpTo(_, _)
SeqsUpTo(S, n) ==
    IF n = 0 THEN {<<>>}
    ELSE LET shorter == SeqsUpTo(S, n - 1)
         IN shorter \cup {Append(q, x) : q \in {r \in shorter : Len(r) = n - 1},
                                         x \in S}

Passwords == SeqsUpTo(PwChars, MaxPwLen)

\* str.encode('utf-8') of one code point
Utf8Char(c) ==
    IF c < 128 THEN <<c>>
    ELSE IF c < 2048 THEN <<192 + (c \div 64), 128 + (c % 64)>>
    ELSE IF c < 65536
    THEN <<224 + (c \div 4096), 128 + ((c \div 64) % 64), 128 + (c % 64)>>
    ELSE <<240 + (c \div 262144), 128 + ((c \div 4096) % 64),
           128 + ((c \div 64) % 64), 128 + (c % 64)>>

\* str.encode('utf-8') raises UnicodeEncodeError on a surrogate
Encodable(text) == \A i \in 1..Len(text) : text[i] \notin Surrogates

RECURSIVE Utf8Encode(_)
Utf8Encode(text) ==
    IF text = <<>> THEN <<>>
    ELSE Utf8Char(Head(text)) \o Utf8Encode(Tail(text))

\* bytes.decode('utf-8')
RECURSIVE Utf8Decode(_)
Utf8Decode(b) ==
    IF b = <<>> THEN <<>>
    ELSE LET h == b[1]
             n == IF h < 128 THEN 1
                  ELSE IF h \in 192..223 THEN 2
                  ELSE IF h \in 224..239 THEN 3
                  ELSE IF h \in 240..247 THEN 4
                  ELSE 0
         IN IF \/ n = 0
               \/ Len(b) < n
               \/ \E i \in 2..n : b[i] \notin 128..191
            THEN BadBytes
            ELSE LET cp == CASE n = 1 -> h
                             [] n = 2 -> (h - 192) * 64 + (b[2] - 128)
                             [] n = 3 -> (h - 224) * 4096 + (b[2] - 128) * 64
                                         + (b[3] - 128)
                             [] n = 4 -> (h - 240) * 262144
                                         + (b[2] - 128) * 4096
                                         + (b[3] - 128) * 64 + (b[4] - 128)
                     rest == Utf8Decode(SubSeq(b, n + 1, Len(b)))
                 IN IF cp \in Surrogates \/ rest = BadBytes
                    THEN BadBytes
                    ELSE <<cp>> \o rest

\* the base64 alphabet: A-Z a-z 0-9 + /, and = (61) for padding
B64Char(i) ==
    IF i < 26 THEN 65 + i
    ELSE IF i < 52 THEN 97 + (i - 26)
    ELSE IF i < 62 THEN 48 + (i - 52)
    ELSE IF i = 62 THEN 43
    ELSE 47

IsB64Char(ch) ==
    ch \in (65..90) \cup (97..122) \cup (48..57) \cup {43, 47}

B64Index(ch) ==
    IF ch \in 65..90 THEN ch - 65
    ELSE IF ch \in 97..122 THEN ch - 97 + 26
    ELSE IF ch \in 48..57 THEN ch - 48 + 52
    ELSE IF ch = 43 THEN 62
    ELSE 63

\* base64.b64encode
RECURSIVE B64Encode(_)
B64Encode(b) ==
    CASE Len(b) = 0 -> <<>>
      [] Len(b) = 1 -> <<B64Char(b[1] \div 4), B64Char((b[1] % 4) * 16), 61, 61>>
      [] Len(b) = 2 -> <<B64Char(b[1] \div 4),
                         B64Char((b[1] % 4) * 16 + (b[2] \div 16)),
                         B64Char((b[2] % 16) * 4), 61>>
      [] OTHER      -> <<B64Char(b[1] \div 4),
                         B64Char((b[1] % 4) * 16 + (b[2] \div 16)),
                         B64Char((b[2] % 16) * 4 + (b[3] \div 64)),
                         B64Char(b[3] % 64)>>
                       \o B64Encode(SubSeq(b, 4, Len(b)))

\* text that base64.b64decode accepts: groups of four, = only at the end
B64Valid(t) ==
    /\ Len(t) % 4 = 0
    /\ \A i \in 1..Len(t) :
          \/ IsB64Char(t[i])
          \/ t[i] = 61 /\ i = Len(t)
          \/ t[i] = 61 /\ i = Len(t) - 1 /\ t[Len(t)] = 61

RECURSIVE B64DecodeGroups(_)
B64DecodeGroups(t) ==
    IF t = <<>> THEN <<>>
    ELSE LET a == B64Index(t[1])
             b == B64Index(t[2])
             c == B64Index(t[3])
             d == B64Index(t[4])
         IN IF t[3] = 61 THEN <<a * 4 + (b \div 16)>>
            ELSE IF t[4] = 61
            THEN <<a * 4 + (b \div 16), (b % 16) * 16 + (c \div 4)>>
            ELSE <<a * 4 + (b \div 16), (b % 16) * 16 + (c \div 4), (c % 4) * 64 + d>>
                 \o B64DecodeGroups(SubSeq(t, 5, Len(t)))

\* base64.b64decode
B64Decode(t) == IF B64Valid(t) THEN B64DecodeGroups(t) ELSE BadBytes

RECURSIVE ModExp(_, _, _)
ModExp(b, e, n) ==
    IF e = 0 THEN 1
    ELSE IF e % 2 = 0
    THEN LET h == ModExp(b, e \div 2, n) IN (h * h) % n
    ELSE (b * ModExp(b, e - 1, n)) % n

\* the padding string: nonzero bytes, here a and b in turn
PaddingString(len, a, b) == [i \in 1..len |-> IF i % 2 = 1 THEN a ELSE b]

\* PKCS#1 v1.5 encryption of message m: 00 02 PS 00 m, raised to RsaE.
\* A message longer than KeyBytes - 11 raises ValueError (BadBytes here).
Pkcs1Encrypt(m, a, b) ==
    IF Len(m) > KeyBytes - 11 THEN BadBytes
    ELSE LET em == <<0, 2>> \o PaddingString(KeyBytes - Len(m) - 3, a, b)
                   \o <<0>> \o m
         IN [i \in 1..KeyBytes |-> ModExp(em[i], RsaE, RsaN)]

\* mutant: the password bytes are encrypted without the inner base64
PasswordB64_Skipped(pw) == Utf8Encode(pw)

\* password_b64 = base64.b64encode(password.encode('utf-8')).decode('utf-8'),
\* and its .encode('utf-8') for the cipher
PasswordB64(pw) == Utf8Encode(Utf8Decode(B64Encode(Utf8Encode(pw))))

\* encrypt_password on bytes: None when the password cannot be encoded, the
\* key cannot be imported or the message is too long
encrypt_password_bytes(pw, a, b) ==
    IF ~Encodable(pw) \/ public_key # "valid" THEN None
    ELSE LET encrypted_password == Pkcs1Encrypt(PasswordB64(pw), a, b)
         IN IF encrypted_password = BadBytes THEN None
            ELSE [kind |-> "b64",
                  text |-> Utf8Decode(B64Encode(encrypted_password))]

\* PKCS#1 v1.5 decryption: the block raised to RsaD must read 00 02 PS 00 m
\* with at least eight padding bytes
Pkcs1Decrypt(ct) ==
    IF Len(ct) # KeyBytes \/ \E i \in 1..Len(ct) : ct[i] \notin 0..(RsaN - 1)
    THEN BadBytes
    ELSE LET em == [i \in 1..KeyBytes |-> ModExp(ct[i], RsaD, RsaN)]
             zeros == {i \in 3..KeyBytes : em[i] = 0}
         IN IF em[1] # 0 \/ em[2] # 2 \/ zeros = {} THEN BadBytes
            ELSE LET sep == CHOOSE i \in zeros : \A j \in zeros : i <= j
                 IN IF sep < 11 THEN BadBytes
                    ELSE SubSeq(em, sep + 1, KeyBytes)

\* the server's decryption of the submitted password:
\* b64decode, RSA PKCS#1 v1.5 decrypt, b64decode, decode('utf-8')
ServerDecrypt(enc) ==
    IF enc = None THEN [kind |-> "fail"]
    ELSE LET ct == B64Decode(Utf8Encode(enc.text))
             m == IF ct = BadBytes THEN BadBytes ELSE Pkcs1Decrypt(ct)
             raw == IF m = BadBytes THEN BadBytes ELSE B64Decode(m)
             text == IF raw = BadBytes THEN BadBytes ELSE Utf8Decode(raw)
         IN IF text = BadBytes THEN [kind |-> "fail"]
            ELSE [kind |-> "text", cps |-> text]

CryptoInit ==
    /\ cr_pc = "idle"
    /\ plaintext = <<>>
    /\ encrypted = None
    /\ recovered = None

\* encrypt_password(pw) with the padding bytes the cipher drew
EncryptPassword(pw, a, b) ==
    /\ surface = "crypto"
    /\ UNCHANGED <<surface, regVars, dbVars, sdkVars, readerVars>>
    /\ cr_pc = "idle"
    /\ cr_pc' = "encrypted"
    /\ plaintext' = pw
    /\ encrypted' = encrypt_password_bytes(pw, a, b)
    /\ recovered' = None

\* the server decrypts what encrypt_password returned
ServerDecrypts ==
    /\ surface = "crypto"
    /\ UNCHANGED <<surface, regVars, dbVars, sdkVars, readerVars>>
    /\ cr_pc = "encrypted"
    /\ cr_pc' = "decrypted"
    /\ recovered' = ServerDecrypt(encrypted)
    /\ UNCHANGED <<plaintext, encrypted>>

CryptoReturn ==
    /\ surface = "crypto"
    /\ UNCHANGED <<surface, regVars, dbVars, sdkVars, readerVars>>
    /\ cr_pc = "decrypted"
    /\ cr_pc' = "idle"
    /\ plaintext' = <<>>
    /\ encrypted' = None
    /\ recovered' = None

CryptoNext ==
    \/ \E pw \in Passwords, a, b \in PadBytes : EncryptPassword(pw, a, b)
    \/ ServerDecrypts
    \/ CryptoReturn

Init ==
    /\ surface \in {"register", "db", "race", "sdk", "crypto"}
    /\ RegInit
    /\ DbInit
    /\ ReaderInit
    /\ SdkInit
    /\ CryptoInit

Next == RegNext \/ DbNext \/ ReaderNext \/ SdkNext \/ CryptoNext

Spec == Init /\ [][Next]_vars

\* ========================================================================
\* Properties
\* ========================================================================

\* the requests of kind k the registration call in progress has sent
Sent(k) == {i \in DOMAIN reqLog : reqLog[i].kind = k}

\* the call's probe was answered, and not by a response with status 200
ProbeFailed ==
    \E i \in Sent("probe") :
        \/ reqLog[i].resp.kind = "exception"
        \/ reqLog[i].resp.kind = "response" /\ reqLog[i].resp.status_code # 200

\* the call's registration request raised or was answered with a code # 0
RegistrationFailed ==
    \E i \in Sent("register") : reqLog[i].resp.kind # "ok"

\* C1: when the liveness probe of a registration call fails (an exception,
\* or a status other than 200), the call sends no registration request and
\* no token-issuance request, and it returns None.
C1_ProbeFailureShortCircuits ==
    ProbeFailed =>
        /\ Sent("register") = {}
        /\ Sent("token") = {}
        /\ rpc \in {"done", "idle"}
        /\ regResult = None

\* a second call whose probe got a 500, after a first call that registered
C1_Witness ==
    /\ regCalls = 2
    /\ serverAccounts # {}
    /\ rpc = "done"
    /\ \E i \in Sent("probe") :
          reqLog[i].resp = [kind |-> "response", status_code |-> 500]

\* C2: a token-issuance request is sent only after the same call received a
\* registration answer with code 0, which itself followed a successful
\* probe; when registration fails (an exception or a code other than 0) the
\* call sends no token-issuance request and returns None.
C2_StepsAreGated ==
    /\ \A t \in Sent("token") :
          \E r \in Sent("register") :
             /\ r < t
             /\ reqLog[r].resp.kind = "ok"
             /\ register_result # None
             /\ register_result.code = 0
    /\ \A r \in Sent("register") :
          \E q \in Sent("probe") :
             /\ q < r
             /\ reqLog[q].resp = [kind |-> "response", status_code |-> 200]
    /\ RegistrationFailed =>
          /\ Sent("token") = {}
          /\ rpc \in {"done", "idle"}
          /\ regResult = None

\* a call whose registration was refused by the server has returned
C2_Witness ==
    /\ rpc = "done"
    /\ \E i \in Sent("register") : reqLog[i].resp.kind = "error"

\* the teardown of the running delete_user is over
TeardownOver ==
    /\ aop = "delete"
    /\ subdel["user"] # "pending"
    /\ apc \in {"verify", "except", "done"}

\* C3: once the teardown is over, each of the four sub-deletes has been
\* executed, whichever of them failed, and no exception of a sub-delete has
\* left the teardown.
C3_TeardownRunsEveryStep ==
    /\ TeardownOver =>
          /\ \A s \in SubDeletes : subdel[s] \in {"ok", "failed"}
          /\ raisedAt # "rollback"
          /\ ~escaped
    /\ apc = "except" => raisedAt \in {"input", "verify"}

\* the teardown is over, the account-row delete failed, the other three ran
C3_Witness ==
    /\ TeardownOver
    /\ subdel["user"] = "failed"
    /\ \A s \in SubDeletes \ {"user"} : subdel[s] = "ok"
    /\ atarget \in users
    /\ atarget \notin tenants

\* delete_user has ended after a teardown all of whose sub-deletes succeeded
DeletedCleanly ==
    /\ aop = "delete"
    /\ apc = "done"
    /\ \A s \in SubDeletes : subdel[s] = "ok"

\* C4 as stated: after delete_user(id) on an existing account, when all four
\* sub-deletes succeed, the account row and the unit row with that id are
\* gone and delete_user returns True.
C4_Original ==
    DeletedCleanly =>
        /\ atarget \notin users
        /\ atarget \notin tenants
        /\ aresult = True

\* C4, amended: after delete_user(id) on an existing account, when all four
\* sub-deletes succeed, the account row and the unit row with that id are
\* gone; delete_user returns True when the verification query itself did not
\* raise, and False when it did.
C4_DeleteThenRowsGone ==
    DeletedCleanly =>
        /\ user_details = UserRow(atarget)
        /\ atarget \notin users
        /\ atarget \notin tenants
        /\ aresult = IF raisedAt = "verify" THEN False ELSE True

\* a confirmed delete of an account that had a unit row has returned True
C4_Witness ==
    /\ DeletedCleanly
    /\ aconfirm
    /\ raisedAt = "none"
    /\ aresult = True
    /\ atarget \notin users

\* C5: after delete_user(id) has run with no sub-delete failing, whatever
\* the database held before, no account row, no unit row, no membership row
\* and no model-configuration row referencing id remains.
C5_NoRowReferencesId ==
    DeletedCleanly =>
        /\ atarget \notin users
        /\ atarget \notin tenants
        /\ \A r \in userTenants : r.user_id # atarget /\ r.tenant_id # atarget
        /\ tenantLLM[atarget] = 0

\* C6: get_user_details on an identifier without an account row returns
\* None and lets no exception out, also when the database is not
\* initialised and when a query raises.
C6_MissingAccountReportsNone ==
    (aop = "info" /\ apc = "done" /\ atarget \notin users) =>
        /\ aresult = None
        /\ ~escaped

\* the account row was looked up, without error, and not found
C6_Witness ==
    /\ aop = "info"
    /\ apc = "done"
    /\ db_initialized
    /\ atarget \notin users
    /\ atarget \in tenants
    /\ raisedAt = "none"

\* the remote calls of the invocation that raised
RaisedCalls == {i \in DOMAIN sdkSent : sdkSent[i].outcome.kind = "raise"}

\* C7: when the remote call of a wrapper operation raises, the operation
\* writes an error record for that exception and raises the same exception:
\* it does not return, with None or anything else.
C7_RemoteFailureIsReraised ==
    spc = "done" =>
        \A i \in RaisedCalls :
            /\ sdkOutcome = [kind |-> "raised", exc |-> sdkSent[i].outcome.exc]
            /\ sdkLog # <<>>
            /\ sdkLog[Len(sdkLog)] =
                 [level |-> "error", exc |-> sdkSent[i].outcome.exc]

\* a streamed chat whose session.ask raised
C7_Witness ==
    /\ spc = "done"
    /\ sdkOp = "chat_with_assistant"
    /\ sdkArgs = [stream |-> TRUE]
    /\ RaisedCalls # {}
    /\ sdkOutcome.kind = "raised"

\* no request kind is sent twice by one registration call
RegistrationSendsOnce ==
    /\ Cardinality(Sent("probe")) <= 1
    /\ Cardinality(Sent("register")) <= 1
    /\ Cardinality(Sent("token")) <= 1
    /\ Len(reqLog) <= 3

\* C8 as stated: one invocation of any wrapper operation issues exactly one
\* remote call, and one registration call sends at most one probe, one
\* registration request and one token-issuance request.
C8_Original ==
    /\ spc = "done" => Len(sdkSent) = 1
    /\ RegistrationSendsOnce

\* upload_document_to_dataset ended before its remote call: the file was
\* missing, or could not be read
UploadFailedLocally ==
    /\ sdkOp = "upload_document_to_dataset"
    /\ ~sdkArgs.exists \/ ~sdkArgs.readable

\* C8, amended: nothing is retried.  One invocation of a wrapper operation
\* issues at most one remote call, and exactly one except that
\* upload_document_to_dataset issues none when the file is missing or cannot
\* be read; one registration call sends at most one probe, one registration
\* request and one token-issuance request, whatever their outcomes.
C8_NoRetry ==
    /\ spc = "done" => Len(sdkSent) = IF UploadFailedLocally THEN 0 ELSE 1
    /\ RegistrationSendsOnce

\* an operation whose one remote call raised has ended
C8_Witness ==
    /\ spc = "done"
    /\ sdkOp = "create_chat_assistant"
    /\ Len(sdkSent) = 1
    /\ sdkSent[1].outcome.kind = "raise"

\* C9: a listing operation of the wrapper hands the remote call the page
\* and page_size it was given and returns the remote call's list, an empty
\* list when the page is empty; list_users returns a list on every path,
\* the empty one when the database is not initialised, when the query
\* raises and when there are no rows.
C9_ListingsReturnLists ==
    /\ (spc = "done" /\ sdkOp \in ListOps) =>
          /\ Len(sdkSent) = 1
          /\ sdkSent[1].args = sdkArgs
          /\ sdkOutcome.kind = "returned" =>
                /\ sdkOutcome.value.kind = "list"
                /\ Len(sdkOutcome.value.rows) <= sdkArgs.page_size
                /\ (sdkSent[1].outcome.n <= (sdkArgs.page - 1) * sdkArgs.page_size)
                      => sdkOutcome.value.rows = <<>>
                /\ (sdkSent[1].outcome.n > (sdkArgs.page - 1) * sdkArgs.page_size)
                      => /\ sdkOutcome.value.rows # <<>>
                         /\ sdkOutcome.value.rows[1] =
                              (sdkArgs.page - 1) * sdkArgs.page_size + 1
    /\ (aop = "list" /\ apc = "done") =>
          /\ aresult.kind = "list"
          /\ (~db_initialized \/ raisedAt = "list" \/ users = {})
                => aresult.rows = <<>>
          /\ (db_initialized /\ raisedAt = "none")
                => Len(aresult.rows) = Cardinality(users)

\* list_users has returned after its query raised on a non-empty table
C9_Witness ==
    /\ aop = "list"
    /\ apc = "done"
    /\ raisedAt = "list"
    /\ users # {}
    /\ aresult = [kind |-> "list", rows |-> <<>>]

\* C10: a constructor call without a token (None or the empty string)
\* raises ValueError, creates no RAGFlow handle and no instance; every
\* instance holds a non-empty token, and every handle was created with one.
C10_TokenRequired ==
    /\ ctorOutcome # None =>
          LET missing == \/ ctorOutcome.api_token = None
                         \/ ctorOutcome.api_token = [kind |-> "str", value |-> ""]
          IN /\ missing => /\ ctorOutcome.kind = "raised"
                           /\ ctorOutcome.exc = "ValueError"
                           /\ ragHandles = ctorOutcome.handles_before
             /\ ~missing => /\ ctorOutcome.kind = "returned"
                            /\ ragHandles = ctorOutcome.handles_before + 1
    /\ client # None =>
          /\ client.api_token # None
          /\ client.api_token # [kind |-> "str", value |-> ""]
          /\ client.rag.api_key = client.api_token
    /\ client = None => ragHandles = 0
    /\ ragHandles <= ctorCalls

\* the first constructor call, with an empty token, has raised
C10_Witness ==
    /\ ctorCalls = 1
    /\ ctorOutcome # None
    /\ ctorOutcome.api_token = [kind |-> "str", value |-> ""]
    /\ ctorOutcome.kind = "raised"
    /\ client = None
    /\ ragHandles = 0

\* ---------------------------------------------------------------------------
\* create_test_user has returned
TestCallOver == regCaller = "test" /\ rpc = "idle"

\* the call's token request was answered with code 0 and a non-empty token
TokenIssued ==
    \E t \in Sent("token") :
        reqLog[t].resp.kind = "ok" /\ reqLog[t].resp.token = "present"

\* C11: create_test_user writes ragflow_user_<suffix>.json exactly when the
\* flow returned a result marked successful (the token was issued); the file
\* then holds that result and its api_token is the token printed; a call
\* whose flow returned None or a partial result writes no file, and no call
\* writes before the flow has returned.
C11_FileIffSuccess ==
    /\ TestCallOver =>
          /\ (saved # None) <=> TokenIssued
          /\ saved # None =>
                /\ saved = user_suffix
                /\ console # None
                /\ \E f \in files :
                      /\ f.suffix = user_suffix
                      /\ f.content = regResult
                      /\ f.content.api_token = console
                /\ regResult.kind = "complete" /\ regResult.success
          /\ (regResult = None \/ regResult.kind = "partial") => saved = None
    /\ (regCaller = "test" /\ rpc # "idle") => saved = None /\ console = None
    /\ \A f, g \in files : f.suffix = g.suffix => f = g

\* a test user was created with a generated suffix and its file written,
\* after an earlier call
C11_Witness ==
    /\ TestCallOver
    /\ regCalls = 2
    /\ user_suffix.kind = "uuid"
    /\ saved = user_suffix
    /\ console.kind = "token"

\* ---------------------------------------------------------------------------
\* the call's registration was accepted but its token request was not
\* answered with a non-empty token
TokenFailedAfterRegistration ==
    /\ \E r \in Sent("register") : reqLog[r].resp.kind = "ok"
    /\ \E t \in Sent("token") :
          ~(reqLog[t].resp.kind = "ok" /\ reqLog[t].resp.token = "present")

\* C12: when registration succeeds and token issuance fails (the request
\* raises, is refused, or answers without a token or with an empty one), the
\* flow returns a partial result: the account fields, a None api_token and a
\* message, with no success mark; a result marked successful is only built
\* from a non-empty issued token.
C12_PartialResultOnTokenFailure ==
    /\ TokenFailedAfterRegistration =>
          /\ rpc \in {"done", "idle"}
          /\ regResult # None
          /\ regResult.kind = "partial"
          /\ regResult.user = register_result.id
          /\ regResult.api_token = None
          /\ regResult.message # ""
          /\ ~GetSuccess(regResult)
    /\ (regResult # None /\ regResult.kind = "complete") =>
          /\ regResult.success
          /\ regResult.api_token.kind = "token"
          /\ TokenIssued

\* the server answered the token request with code 0 and an empty token
C12_Witness ==
    /\ rpc = "done"
    /\ \E t \in Sent("token") :
          reqLog[t].resp = [kind |-> "ok", token |-> "empty"]
    /\ regResult.kind = "partial"

\* ---------------------------------------------------------------------------
\* encrypt_password fails in the running (or last) call: the key does not
\* parse, or the password is too long for it
EncryptionFails ==
    /\ regCalls > 0
    /\ public_key = "invalid" \/ regArgs.password = "pwLong"

\* C13: a failure of encrypt_password does not leave the flow as an
\* exception: the call sends no registration request and no token request,
\* creates no account, and returns None.
C13_EncryptionFailureReturnsNone ==
    EncryptionFails =>
        /\ Sent("register") = {}
        /\ Sent("token") = {}
        /\ register_result = None
        /\ regResult = None
        /\ regCalls \notin serverAccounts
        /\ saved = None

\* after a first call that registered, a second call with a password too
\* long for the key has passed the probe and returned
C13_Witness ==
    /\ rpc = "done"
    /\ regCalls = 2
    /\ 1 \in serverAccounts
    /\ public_key = "valid"
    /\ regArgs.password = "pwLong"
    /\ \E q \in Sent("probe") :
          reqLog[q].resp = [kind |-> "response", status_code |-> 200]

\* ---------------------------------------------------------------------------
\* C17: every token-issuance request of a call carries the Authorization
\* header captured from that call's own registration response, and the
\* api_token of a successful result was issued to the account of that result
\* (never to an earlier account, never to an unauthenticated session).
C17_TokenBelongsToAccount ==
    /\ \A t \in Sent("token") :
          reqLog[t].auth = [kind |-> "auth", id |-> regCalls]
    /\ (regResult # None /\ regResult.kind = "complete") =>
          regResult.api_token.owner = regResult.user

\* ---------------------------------------------------------------------------
\* delete_user was called for an id with no account row: no sub-delete has
\* touched the account row and the row is not there
AccountAbsent ==
    /\ aop = "delete"
    /\ subdel["user"] = "pending"
    /\ atarget \notin users

\* C18: delete_user(id) on an id without an account row deletes nothing and
\* returns False: every step it takes leaves all rows as they are, so
\* orphaned unit, membership and model-configuration rows of an earlier
\* partial teardown stay, and the teardown is never entered.
C18_AbsentAccountDeletesNothing ==
    [][AccountAbsent =>
          /\ dbRows' = dbRows
          /\ apc' # apc => apc' \in {"done", "idle"}
          /\ apc' = "done" => aresult' = False]_vars

\* delete_user has returned False for an id whose account row is gone while
\* its unit row and a membership of the unit are still there
C18_Witness ==
    /\ AccountAbsent
    /\ apc = "done"
    /\ db_initialized
    /\ raisedAt = "none"
    /\ aresult = False
    /\ atarget \in tenants
    /\ \E r \in userTenants : r.tenant_id = atarget
    /\ queries = {Executed("User.select.first", TRUE)}

\* ---------------------------------------------------------------------------
\* the teardown of the running delete_user has been entered
TeardownStarted ==
    /\ aop = "delete"
    /\ \/ apc \in {"rb_user", "rb_tenant", "rb_user_tenant", "rb_tenant_llm",
                   "verify"}
       \/ subdel # NoSubDel

\* the typed text is DELETE with nothing but blanks before and after it
BlankPaddedDELETE(t) ==
    \E i \in 1..Len(t) :
        /\ t[i] = "DELETE"
        /\ \A j \in (1..Len(t)) \ {i} : t[j] = " "

\* the operator answered the prompt with t
Typed(t) == typed = [kind |-> "typed", text |-> t]

\* C19 as stated: with confirm=True the teardown is only entered when the
\* operator's input is exactly 'DELETE'; after any other input delete_user
\* returns False without a sub-delete; without confirm=True nothing is asked.
C19_Original ==
    /\ (TeardownStarted /\ aconfirm) => Typed(<<"DELETE">>)
    /\ (aop = "delete" /\ typed # None /\ ~Typed(<<"DELETE">>)) =>
          /\ ~TeardownStarted
          /\ apc = "done" => aresult = False
    /\ (TeardownStarted /\ ~aconfirm) => typed = None

\* the state part of C19 as amended
C19_Confirmed ==
    /\ (TeardownStarted /\ aconfirm) =>
          typed.kind = "typed" /\ BlankPaddedDELETE(typed.text)
    /\ (/\ aop = "delete"
        /\ typed # None
        /\ ~(typed.kind = "typed" /\ BlankPaddedDELETE(typed.text))) =>
          /\ ~TeardownStarted
          /\ apc \in {"except", "done"}
          /\ apc = "done" => aresult = False
    /\ (TeardownStarted /\ ~aconfirm) => typed = None

\* C19 (amended): with confirm=True the teardown is only entered when the
\* operator's input is 'DELETE' once leading and trailing whitespace is
\* removed; after any other input, and after an end of input, delete_user
\* returns False, no sub-delete is executed and every row is left as it was;
\* with confirm=False the teardown is entered without a prompt.
C19_TeardownOnlyAfterConfirmation ==
    /\ []C19_Confirmed
    /\ [][(apc = "confirm" /\ apc' # "rb_user") =>
             /\ dbRows' = dbRows
             /\ subdel' = NoSubDel]_vars
    /\ [][(apc' = "rb_user" /\ apc # "rb_user") =>
             \/ apc = "confirm" /\ aconfirm
             \/ apc = "gud_llm" /\ ~aconfirm]_vars

\* the operator typed DELETE! and delete_user returned False, the account
\* row still there
C19_Witness ==
    /\ aop = "delete"
    /\ apc = "done"
    /\ Typed(<<"DELETE", "!">>)
    /\ aresult = False
    /\ atarget \in users
    /\ atarget \in tenants

\* ---------------------------------------------------------------------------
\* C16: every query or mutation the admin tool issues itself (in list_users,
\* get_user_details, delete_user and the teardown) is executed while a scoped
\* connection context is held, and the context is released once the with
\* block is left, whether its body succeeded or raised.
C16_QueriesRunInsideContext ==
    /\ \A x \in queries : x.ctx
    /\ apc \notin {"gud_user", "gud_tenant", "gud_user_tenant", "gud_llm"} =>
          ~dbctx

\* ---------------------------------------------------------------------------
\* C15: nothing orders delete_user(id) against a get_user_details(id) of
\* another process: wherever the teardown stands, the reader's next query can
\* run, and wherever the reader stands, the next sub-delete can run; so the
\* reader can see the account row and then find the unit, membership and
\* model-configuration rows already gone (the witness).
C15_NothingPreventsTornRead ==
    surface = "race" =>
        /\ reader_pc = "gud_user"        => ENABLED ReaderSelectUser(FALSE)
        /\ reader_pc = "gud_tenant"      => ENABLED ReaderSelectTenant(FALSE)
        /\ reader_pc = "gud_user_tenant" => ENABLED ReaderSelectUserTenant(FALSE)
        /\ reader_pc = "gud_llm"         => ENABLED ReaderCountLLM(FALSE)
        /\ apc = "rb_user"        => ENABLED RollbackDeleteUser(FALSE)
        /\ apc = "rb_tenant"      => ENABLED RollbackDeleteTenant(FALSE)
        /\ apc = "rb_user_tenant" => ENABLED RollbackDeleteUserTenant(FALSE)
        /\ apc = "rb_tenant_llm"  => ENABLED RollbackDeleteTenantLLM(FALSE)

\* the reader's get_user_details(1) has returned the account row with no
\* unit, no membership and no model configuration, all of which existed when
\* it read the account row; delete_user(1) of the first process is at its
\* existence checks
C15_Witness ==
    /\ surface = "race"
    /\ reader_pc = "done"
    /\ reader_target = 1
    /\ reader_result = UserRow(1)
    /\ reader_details = [user |-> UserRow(1), tenant |-> None,
                         user_tenant |-> None, tenant_llm_count |-> 0]
    /\ aop = "delete"
    /\ atarget = 1
    /\ apc = "verify"
    /\ \A k \in SubDeletes : subdel[k] = "ok"

\* ---------------------------------------------------------------------------
\* the number of UTF-8 bytes of a text, code point by code point
RECURSIVE Utf8Len(_)
Utf8Len(text) ==
    IF text = <<>> THEN 0
    ELSE (IF Head(text) < 128 THEN 1
          ELSE IF Head(text) < 2048 THEN 2
          ELSE IF Head(text) < 65536 THEN 3
          ELSE 4) + Utf8Len(Tail(text))

\* the password has a UTF-8 encoding and its base64 text, four characters
\* for every three bytes, is short enough for the key
PasswordFits(text) ==
    /\ \A i \in 1..Len(text) : text[i] < 55296 \/ text[i] > 57343
    /\ 4 * ((Utf8Len(text) + 2) \div 3) <= KeyBytes - 11

\* C14 as stated: for any plaintext password, encrypt_password followed by
\* the server's decryption yields the identical plaintext.
C14_Original ==
    cr_pc = "decrypted" => recovered = [kind |-> "text", cps |-> plaintext]

\* C14 (amended): for every password that UTF-8 can encode and whose base64
\* text is at most the key length less 11 bytes, encrypt_password followed
\* by the server's decryption yields the identical plaintext, whatever the
\* padding bytes; for any other password encrypt_password returns None and
\* there is nothing to decrypt.
C14_RoundTripWhenItFits ==
    /\ cr_pc \in {"encrypted", "decrypted"} =>
          (encrypted # None <=> PasswordFits(plaintext))
    /\ cr_pc = "decrypted" =>
          IF PasswordFits(plaintext)
          THEN recovered = [kind |-> "text", cps |-> plaintext]
          ELSE recovered = [kind |-> "fail"]

\* a two-character password of five UTF-8 bytes went through both ways
C14_Witness ==
    /\ cr_pc = "decrypted"
    /\ plaintext = <<8364, 233>>
    /\ encrypted # None
    /\ Len(encrypted.text) = 4 * ((KeyBytes + 2) \div 3)
    /\ recovered = [kind |-> "text", cps |-> <<8364, 233>>]

====
